---- MODULE Spec2Model ----
(***************************************************************************)
(* Model of src/main2.cpp: the raster overlap analyser.  main() opens two  *)
(* rasters, reads the alpha band of each into a mask, derives from each    *)
(* mask the rectangle of opaque pixels as a GEOS polygon, intersects the   *)
(* two polygons and writes the envelope of the intersection as GeoJSON.    *)
(*                                                                         *)
(* Coordinates are doubles in the program; the model draws the transform   *)
(* parameters from integers, on which the arithmetic of pixelToGeo is      *)
(* exact.  A raster file is the environment's input to loadRaster.         *)
(***************************************************************************)
EXTENDS Integers, Sequences, FiniteSets

VARIABLES
    pc,           \* position of main()
    hasGEOS,      \* the build: HAS_GEOS defined or not
    proc,         \* processor1, processor2: the fields of RasterProcessor
    loadOK,       \* what loadRaster returned for each processor
    opaqueCount,  \* printDetailedInfo's count of opaque pixels
    dataBounds,   \* getValidGeometry's dataMinX..dataMaxY and foundData
    geometry,     \* geometry1, geometry2
    intersection, \* main's intersection
    intersected,  \* GEOSIntersection has been called
    acquired,     \* geometry handles handed to main
    released,     \* GEOSGeom_destroy calls per handle
    geosInit,     \* initGEOS calls
    geosFinish,   \* finishGEOS calls
    document,     \* intersection_obchaja_2.geojson
    exitCode      \* the process's exit status

vars == <<pc, hasGEOS, proc, loadOK, opaqueCount, dataBounds, geometry,
          intersection, intersected, acquired, released, geosInit,
          geosFinish, document, exitCode>>

(***************************************************************************)
(* Bounds of the inputs.                                                   *)
(***************************************************************************)
MaxDim == 2      \* widths and heights of the rasters whose masks are enumerated
PipeDim == 1     \* the same, for the runs that pair two enumerated rasters

OPAQUE == 255
DefaultMax == 100
IntBits == 32                \* the width of int
SegvStatus == 128 + 11       \* the status of a process killed by SIGSEGV

Half == 2 ^ (IntBits \div 2)
INT_MAX == (Half \div 2 - 1) * Half + (Half - 1)

Procs == {1, 2}
Handles == {"geometry1", "geometry2", "intersection"}
HandleOf(p) == IF p = 1 THEN "geometry1" ELSE "geometry2"

Min(a, b) == IF a < b THEN a ELSE b
Max(a, b) == IF a > b THEN a ELSE b
SetMin(S) == CHOOSE m \in S : \A n \in S : m <= n
SetMax(S) == CHOOSE m \in S : \A n \in S : m >= n

(***************************************************************************)
(* int arithmetic.  The product of two non-negative ints as the machine    *)
(* multiplication leaves it: the low 32 bits, read as a signed value.      *)
(* It is computed on 16- and 8-bit limbs so that no intermediate value     *)
(* leaves the 32-bit range.                                                *)
(***************************************************************************)
MulOverflows(a, b) == b > 0 /\ a > INT_MAX \div b

MulWrap(a, b) ==
    LET a1 == a \div Half      a0 == a % Half
        b1 == b \div Half      b0 == b % Half
        u  == a0 * (b0 % 256)
        v  == a0 * (b0 \div 256)
        lo == u + (v % 256) * 256
        lo16 == lo % Half
        hi == (v \div 256) + (lo \div Half) + ((a1 * b0) % Half) + ((a0 * b1) % Half)
        hi16 == hi % Half
    IN  IF hi16 >= Half \div 2 THEN (hi16 - Half) * Half + lo16
                               ELSE hi16 * Half + lo16

Mul32(a, b) == IF MulOverflows(a, b) THEN MulWrap(a, b) ELSE a * b

(***************************************************************************)
(* Geometries of the GEOS collaborator.                                    *)
(***************************************************************************)
NULL == [kind |-> "NULL", coords |-> <<>>]
EmptyGeometry == [kind |-> "GeometryCollection", coords |-> <<>>]
EmptyPoint == [kind |-> "Point", coords |-> <<>>]
Geom(k, c) == [kind |-> k, coords |-> c]

Xs(g) == {g.coords[i][1] : i \in DOMAIN g.coords}
Ys(g) == {g.coords[i][2] : i \in DOMAIN g.coords}

GEOSisEmpty(g) == g.coords = <<>>

RectRing(x0, y0, x1, y1) == << <<x0, y0>>, <<x1, y0>>, <<x1, y1>>, <<x0, y1>>, <<x0, y0>> >>

\* GEOSEnvelope: the minimum rectangular polygon or point that contains the
\* geometry, an empty point for an empty geometry.
GEOSEnvelope(g) ==
    IF GEOSisEmpty(g) THEN EmptyPoint
    ELSE LET x0 == SetMin(Xs(g))  x1 == SetMax(Xs(g))
             y0 == SetMin(Ys(g))  y1 == SetMax(Ys(g))
         IN  IF x0 = x1 /\ y0 = y1 THEN Geom("Point", << <<x0, y0>> >>)
             ELSE Geom("Polygon", RectRing(x0, y0, x1, y1))

\* GEOSGetExteriorRing: NULL for anything but a polygon.
GEOSGetExteriorRing(g) ==
    IF g.kind = "Polygon" THEN Geom("LinearRing", g.coords) ELSE NULL

\* A ring that encloses no area is not a valid polygon.
Degenerate(g) == Cardinality(Xs(g)) < 2 \/ Cardinality(Ys(g)) < 2

\* The intersection of two rectangles: empty, a point, a segment or a rectangle.
RectIntersection(g1, g2) ==
    LET x0 == Max(SetMin(Xs(g1)), SetMin(Xs(g2)))
        x1 == Min(SetMax(Xs(g1)), SetMax(Xs(g2)))
        y0 == Max(SetMin(Ys(g1)), SetMin(Ys(g2)))
        y1 == Min(SetMax(Ys(g1)), SetMax(Ys(g2)))
    IN  IF x0 > x1 \/ y0 > y1 THEN EmptyGeometry
        ELSE IF x0 = x1 /\ y0 = y1 THEN Geom("Point", << <<x0, y0>> >>)
        ELSE IF x0 = x1 \/ y0 = y1 THEN Geom("LineString", << <<x0, y0>>, <<x1, y1>> >>)
        ELSE Geom("Polygon", << <<x1, y1>>, <<x1, y0>>, <<x0, y0>>, <<x0, y1>>, <<x1, y1>> >>)

\* GEOSIntersection: what the primitive may return for two polygons.  On an
\* invalid polygon it may fail, which the C API reports as NULL.
GEOSIntersection(g1, g2) ==
    {RectIntersection(g1, g2)}
        \cup (IF Degenerate(g1) \/ Degenerate(g2) THEN {NULL} ELSE {})

(***************************************************************************)
(* Raster files: what GDAL reports for orto1.tif and orto2.tif.            *)
(***************************************************************************)
Transform(has, gt) == [has |-> has, gt |-> gt]
\* Without georeferencing GetGeoTransform fails and leaves the default.
NoTransform == Transform(FALSE, <<0, 1, 0, 0, 0, 1>>)

Band(interp, data) == [interp |-> interp, data |-> data]
Zeros(n) == [i \in 1..n |-> 0]

File(exists, w, h, bands, t, readOK) ==
    [exists |-> exists, width |-> w, height |-> h, bands |-> bands,
     transform |-> t, readOK |-> readOK]

\* An RGBA raster of w x h pixels whose alpha band holds mask m.
RGBA(w, h, m, t) ==
    File(TRUE, w, h,
         << Band("Red", Zeros(w * h)), Band("Green", Zeros(w * h)),
            Band("Blue", Zeros(w * h)), Band("Alpha", m) >>, t, TRUE)

\* A raster too large for its mask to be written down: only its size matters.
Huge(w, h) == File(TRUE, w, h, << Band("Gray", <<>>), Band("Alpha", <<>>) >>, NoTransform, TRUE)

MissingFile == File(FALSE, 0, 0, <<>>, NoTransform, FALSE)
RGBFile == File(TRUE, 1, 1, << Band("Red", <<OPAQUE>>), Band("Green", <<OPAQUE>>),
                               Band("Blue", <<OPAQUE>>) >>, NoTransform, TRUE)
UnreadableFile == File(TRUE, 1, 1, << Band("Gray", <<0>>), Band("Alpha", <<OPAQUE>>) >>,
                       NoTransform, FALSE)
GrayAlphaFile == File(TRUE, 2, 1, << Band("Alpha", <<0, OPAQUE>>), Band("Gray", <<OPAQUE, 0>>) >>,
                      NoTransform, TRUE)
FourBandFile == File(TRUE, 1, 2,
                     << Band("Red", <<0, 0>>), Band("Green", <<0, 0>>), Band("Blue", <<0, 0>>),
                        Band("Undefined", <<OPAQUE, 0>>) >>, NoTransform, TRUE)

SpecialFiles == {MissingFile, RGBFile, UnreadableFile, GrayAlphaFile, FourBandFile}
HugeFiles == {Huge(Half, Half), Huge(Half, Half \div 2), Huge(Half + 1, Half + 1)}

Masks(w, h, bytes) == [1..(w * h) -> bytes]

Rasters(maxW, maxH, bytes, transforms) ==
    UNION { {RGBA(w, h, m, t) : m \in Masks(w, h, bytes), t \in transforms}
            : w \in 0..maxW, h \in 0..maxH }

PipeTransforms ==
    { NoTransform,
      Transform(TRUE, <<0, 1, 0, 0, 0, 1>>),
      Transform(TRUE, <<1, 1, 0, 1, 0, 1>>),
      Transform(TRUE, <<1, 1, 0, 0, 0, 1>>),
      Transform(TRUE, <<3, 1, 0, 3, 0, 1>>),
      Transform(TRUE, <<0, 2, 0, 0, 0, 2>>),
      Transform(TRUE, <<0, 1, 0, 2, 0, -1>>),
      Transform(TRUE, <<0, 1, -1, 0, 1, 1>>) }

ScanTransforms ==
    { NoTransform,
      Transform(TRUE, <<0, 1, 0, 0, 0, 1>>),
      Transform(TRUE, <<5, 1, 0, 5, 0, 1>>),
      Transform(TRUE, <<10, 2, 1, 20, 3, -2>>),
      Transform(TRUE, <<0, 1, -1, 0, 1, 1>>) }

\* The files of the runs that pair two rasters.
PipeFiles ==
    Rasters(PipeDim, PipeDim, {0, OPAQUE}, PipeTransforms) \cup SpecialFiles \cup HugeFiles

\* The files of the runs that explore one raster's mask.
ScanFiles ==
    Rasters(MaxDim, MaxDim, {0, OPAQUE}, ScanTransforms)
        \cup Rasters(2, 2, {0, 1, OPAQUE - 1, OPAQUE}, {NoTransform})
        \cup SpecialFiles \cup HugeFiles
SiblingFiles ==
    { RGBA(1, 1, <<OPAQUE>>, Transform(TRUE, <<0, 1, 0, 0, 0, 1>>)),
      RGBA(1, 1, <<0>>, NoTransform),
      RGBA(2, 2, <<OPAQUE, OPAQUE, OPAQUE, OPAQUE>>, Transform(TRUE, <<5, 1, 0, 5, 0, 1>>)) }
        \cup SpecialFiles \cup HugeFiles

(***************************************************************************)
(* RasterProcessor.                                                        *)
(***************************************************************************)
\* RasterProcessor(): dataset(nullptr), hasGeoTransform(false), maskData empty.
\* width, height and geoTransform are not initialised and not read before
\* loadRaster sets them; sizeArg is the argument of maskData.resize.
NewProcessor ==
    [dataset |-> FALSE, width |-> 0, height |-> 0, maskData |-> <<>>,
     geoTransform |-> <<0, 0, 0, 0, 0, 0>>, hasGeoTransform |-> FALSE,
     sized |-> FALSE, sizeArg |-> 0]

RECURSIVE FirstAlpha(_, _)
FirstAlpha(bands, i) ==
    IF i > Len(bands) THEN 0
    ELSE IF bands[i].interp = "Alpha" THEN i
    ELSE FirstAlpha(bands, i + 1)

findAlphaBand(f) ==
    LET bandCount == Len(f.bands)
        a == FirstAlpha(f.bands, 1)
    IN  IF a # 0 THEN a
        ELSE IF bandCount >= 4 THEN bandCount
        ELSE -1

\* loadMaskData on processor P (dataset open, width and height set) reading
\* file f: the outcomes, each [how, proc].  how is "true" or "false" (the
\* value returned), "throw" (maskData.resize throws) or "crash" (RasterIO
\* writes past the buffer).  When width * height overflows int the behaviour
\* is undefined: the product wraps, or the process dies.
loadMaskData(P, f) ==
    LET alphaBand == findAlphaBand(f)
        n == Mul32(P.width, P.height)
        S == [P EXCEPT !.sized = TRUE, !.sizeArg = n]
    IN  IF alphaBand = -1 THEN {[how |-> "false", proc |-> P]}
        ELSE IF MulOverflows(P.width, P.height)
        THEN {[how |-> "crash", proc |-> S]}
                 \cup (IF n < 0 THEN {[how |-> "throw", proc |-> S]}
                       ELSE IF n = 0 THEN {[how |-> "false", proc |-> S]}
                       ELSE {})
        ELSE IF f.readOK
        THEN {[how |-> "true", proc |-> [S EXCEPT !.maskData = f.bands[alphaBand].data]]}
        ELSE {[how |-> "false", proc |-> [S EXCEPT !.maskData = Zeros(n)]]}

loadRaster(P, f) ==
    IF ~f.exists THEN {[how |-> "false", proc |-> P]}
    ELSE loadMaskData([P EXCEPT !.dataset = TRUE,
                                !.width = f.width,
                                !.height = f.height,
                                !.hasGeoTransform = f.transform.has,
                                !.geoTransform = f.transform.gt], f)

\* isOpaque reading every non-zero byte as opaque.
isOpaque_nonzero(P, x, y) == P.maskData[y * P.width + x + 1] # 0

isOpaque(P, x, y) == P.maskData[y * P.width + x + 1] = OPAQUE

\* pixelToGeo with the two rotation terms exchanged.
pixelToGeo_swapped(P, x, y) ==
    IF P.hasGeoTransform
    THEN << P.geoTransform[1] + x * P.geoTransform[2] + y * P.geoTransform[5],
            P.geoTransform[4] + x * P.geoTransform[3] + y * P.geoTransform[6] >>
    ELSE << x, P.height - y >>

pixelToGeo(P, x, y) ==
    IF P.hasGeoTransform
    THEN << P.geoTransform[1] + x * P.geoTransform[2] + y * P.geoTransform[3],
            P.geoTransform[4] + x * P.geoTransform[5] + y * P.geoTransform[6] >>
    ELSE << x, P.height - y >>

Bounds(found, x0, y0, x1, y1) ==
    [foundData |-> found, dataMinX |-> x0, dataMinY |-> y0, dataMaxX |-> x1, dataMaxY |-> y1]

\* The body of the scan's loop for pixel (x, y).
ScanPixel(P, x, y, b) ==
    IF isOpaque(P, x, y)
    THEN Bounds(TRUE, Min(b.dataMinX, x), Min(b.dataMinY, y),
                      Max(b.dataMaxX, x), Max(b.dataMaxY, y))
    ELSE b

RECURSIVE ScanRow(_, _, _, _)
ScanRow(P, x, y, b) ==
    IF x < P.width THEN ScanRow(P, x + 1, y, ScanPixel(P, x, y, b)) ELSE b

RECURSIVE ScanRows(_, _, _)
ScanRows(P, y, b) ==
    IF y < P.height THEN ScanRows(P, y + 1, ScanRow(P, 0, y, b)) ELSE b

\* The scan starting its maxima where it starts its minima.
ScanStart_maxAtSize(P) == Bounds(FALSE, P.width, P.height, P.width, P.height)

ScanStart(P) == Bounds(FALSE, P.width, P.height, 0, 0)

\* The ring getValidGeometry builds from the two projected corners.
ExtentRing(P, b) ==
    LET ul == pixelToGeo(P, b.dataMinX, b.dataMinY)
        lr == pixelToGeo(P, b.dataMaxX + 1, b.dataMaxY + 1)
    IN  << <<ul[1], ul[2]>>, <<lr[1], ul[2]>>, <<lr[1], lr[2]>>, <<ul[1], lr[2]>>,
           <<ul[1], ul[2]>> >>

\* getValidGeometry: the polygon (or NULL) and the bounds it reports.
getValidGeometry(P) ==
    IF P.maskData = <<>> THEN [geom |-> NULL, bounds |-> ScanStart(P)]
    ELSE LET b == ScanRows(P, 0, ScanStart(P))
         IN  IF ~b.foundData THEN [geom |-> NULL, bounds |-> b]
             ELSE [geom |-> Geom("Polygon", ExtentRing(P, b)), bounds |-> b]

RECURSIVE CountRow(_, _, _, _)
CountRow(P, x, y, n) ==
    IF x < P.width THEN CountRow(P, x + 1, y, IF isOpaque(P, x, y) THEN n + 1 ELSE n) ELSE n

RECURSIVE CountRows(_, _, _)
CountRows(P, y, n) ==
    IF y < P.height THEN CountRows(P, y + 1, CountRow(P, 0, y, n)) ELSE n

(***************************************************************************)
(* The GeoJSON documents.                                                  *)
(***************************************************************************)
NoDocument == [type |-> "none", features |-> <<>>]
EmptyCollection == [type |-> "FeatureCollection", features |-> <<>>]
Feature(ring) ==
    [type |-> "Feature",
     properties |-> [name |-> "Intersection Area"],
     geometry |-> [type |-> "Polygon", coordinates |-> <<ring>>]]

\* geometryToGeoJSON: the document for a geometry.  The box starts at
\* (0, 0, 100, 100) and is overwritten from the exterior ring of the envelope
\* when there is one.
geometryToGeoJSON(g) ==
    IF g = NULL THEN EmptyCollection
    ELSE LET envelope == GEOSEnvelope(g)
             ring == GEOSGetExteriorRing(envelope)
             read == ring # NULL
             minX == IF read THEN ring.coords[1][1] ELSE 0
             minY == IF read THEN ring.coords[1][2] ELSE 0
             maxX == IF read THEN ring.coords[3][1] ELSE DefaultMax
             maxY == IF read THEN ring.coords[3][2] ELSE DefaultMax
         IN  [type |-> "FeatureCollection",
              features |-> << Feature(RectRing(minX, minY, maxX, maxY)) >>]

\* The test without the call of GEOSisEmpty.
HasOverlap_nonNull(g) == g # NULL

\* main's test of the intersection.
HasOverlap(g) == g # NULL /\ ~GEOSisEmpty(g)

(***************************************************************************)
(* main().                                                                 *)
(***************************************************************************)
Init ==
    /\ pc = "start"
    /\ hasGEOS \in BOOLEAN
    /\ proc = [p \in Procs |-> NewProcessor]
    /\ loadOK = [p \in Procs |-> FALSE]
    /\ opaqueCount = [p \in Procs |-> 0]
    /\ dataBounds = [p \in Procs |-> Bounds(FALSE, 0, 0, 0, 0)]
    /\ geometry = [p \in Procs |-> NULL]
    /\ intersection = NULL
    /\ intersected = FALSE
    /\ acquired = {}
    /\ released = [h \in Handles |-> 0]
    /\ geosInit = 0
    /\ geosFinish = 0
    /\ document = NoDocument
    /\ exitCode = 0

LoadPc(p) == IF p = 1 THEN "load1" ELSE "load2"
InfoPc(p) == IF p = 1 THEN "info1" ELSE "info2"
GeomPc(p) == IF p = 1 THEN "geom1" ELSE "geom2"

\* ~RasterProcessor for the processors in scope: GDALClose of an open dataset.
Destroyed(ps) == [p \in Procs |-> [ps[p] EXCEPT !.dataset = FALSE]]

\* return status from main: the processors go out of scope.
Return(ps, status) ==
    /\ proc' = Destroyed(ps)
    /\ exitCode' = status
    /\ pc' = "exit"

GeosState == <<geometry, intersection, intersected, acquired, released, dataBounds>>

\* initGEOS(nullptr, nullptr), compiled in with HAS_GEOS.
InitGEOS ==
    /\ pc = "start"
    /\ geosInit' = IF hasGEOS THEN geosInit + 1 ELSE geosInit
    /\ pc' = "load1"
    /\ UNCHANGED <<hasGEOS, proc, loadOK, opaqueCount, GeosState, geosFinish,
                   document, exitCode>>

\* processor.loadRaster(file) returns true.
LoadOK(p, files) ==
    /\ pc = LoadPc(p)
    /\ \E f \in files : \E r \in loadRaster(NewProcessor, f) :
          /\ r.how = "true"
          /\ proc' = [proc EXCEPT ![p] = r.proc]
    /\ loadOK' = [loadOK EXCEPT ![p] = TRUE]
    /\ pc' = InfoPc(p)
    /\ UNCHANGED <<hasGEOS, opaqueCount, GeosState, geosInit, geosFinish,
                   document, exitCode>>

\* processor.loadRaster(file) returns false: main returns 1.
LoadFailed(p, files) ==
    /\ pc = LoadPc(p)
    /\ \E f \in files : \E r \in loadRaster(NewProcessor, f) :
          /\ r.how = "false"
          /\ Return([proc EXCEPT ![p] = r.proc], 1)
    /\ UNCHANGED <<hasGEOS, loadOK, opaqueCount, GeosState, geosInit, geosFinish,
                   document>>

\* maskData.resize throws: the handler of main returns 1.
LoadThrew(p, files) ==
    /\ pc = LoadPc(p)
    /\ \E f \in files : \E r \in loadRaster(NewProcessor, f) :
          /\ r.how = "throw"
          /\ Return([proc EXCEPT ![p] = r.proc], 1)
    /\ UNCHANGED <<hasGEOS, loadOK, opaqueCount, GeosState, geosInit, geosFinish,
                   document>>

\* The read runs past the mask buffer: the process is killed.
LoadCrashed(p, files) ==
    /\ pc = LoadPc(p)
    /\ \E f \in files : \E r \in loadRaster(NewProcessor, f) :
          /\ r.how = "crash"
          /\ proc' = [proc EXCEPT ![p] = r.proc]
    /\ exitCode' = SegvStatus
    /\ pc' = "exit"
    /\ UNCHANGED <<hasGEOS, loadOK, opaqueCount, GeosState, geosInit, geosFinish,
                   document>>

\* processor.printDetailedInfo().
PrintDetailedInfo(p) ==
    /\ pc = InfoPc(p)
    /\ opaqueCount' = [opaqueCount EXCEPT ![p] = CountRows(proc[p], 0, 0)]
    /\ pc' = IF p = 1 THEN "load2" ELSE IF hasGEOS THEN "geom1" ELSE "finish"
    /\ UNCHANGED <<hasGEOS, proc, loadOK, GeosState, geosInit, geosFinish,
                   document, exitCode>>

\* geometryN = processorN.getValidGeometry().
GetValidGeometry(p) ==
    /\ pc = GeomPc(p)
    /\ LET r == getValidGeometry(proc[p])
       IN  /\ geometry' = [geometry EXCEPT ![p] = r.geom]
           /\ dataBounds' = [dataBounds EXCEPT ![p] = r.bounds]
           /\ acquired' = IF r.geom # NULL THEN acquired \cup {HandleOf(p)} ELSE acquired
    /\ pc' = IF p = 1 THEN "geom2" ELSE "test"
    /\ UNCHANGED <<hasGEOS, proc, loadOK, opaqueCount, intersection, intersected,
                   released, geosInit, geosFinish, document, exitCode>>

\* if (geometry1 && geometry2): intersection = GEOSIntersection(...).
ComputeIntersection ==
    /\ pc = "test"
    /\ geometry[1] # NULL /\ geometry[2] # NULL
    /\ \E g \in GEOSIntersection(geometry[1], geometry[2]) :
          /\ intersection' = g
          /\ acquired' = IF g # NULL THEN acquired \cup {"intersection"} ELSE acquired
    /\ intersected' = TRUE
    /\ pc' = "classify"
    /\ UNCHANGED <<hasGEOS, proc, loadOK, opaqueCount, dataBounds, geometry, released,
                   geosInit, geosFinish, document, exitCode>>

\* The intersection is there and not empty: write it and destroy it.
WriteIntersection ==
    /\ pc = "classify"
    /\ HasOverlap(intersection)
    /\ document' = geometryToGeoJSON(intersection)
    /\ released' = [released EXCEPT !["intersection"] = @ + 1]
    /\ pc' = "destroy"
    /\ UNCHANGED <<hasGEOS, proc, loadOK, opaqueCount, dataBounds, geometry,
                   intersection, intersected, acquired, geosInit, geosFinish, exitCode>>

\* The intersection is NULL or empty: write the empty collection.
WriteEmpty ==
    /\ pc = "classify"
    /\ ~HasOverlap(intersection)
    /\ document' = EmptyCollection
    /\ pc' = "destroy"
    /\ UNCHANGED <<hasGEOS, proc, loadOK, opaqueCount, GeosState, geosInit,
                   geosFinish, exitCode>>

\* GEOSGeom_destroy(geometry1); GEOSGeom_destroy(geometry2).
DestroyGeometries ==
    /\ pc = "destroy"
    /\ released' = [released EXCEPT !["geometry1"] = @ + 1, !["geometry2"] = @ + 1]
    /\ pc' = "finish"
    /\ UNCHANGED <<hasGEOS, proc, loadOK, opaqueCount, dataBounds, geometry,
                   intersection, intersected, acquired, geosInit, geosFinish,
                   document, exitCode>>

\* else: a geometry is missing, which is reported on cerr.
ReportMissing ==
    /\ pc = "test"
    /\ ~(geometry[1] # NULL /\ geometry[2] # NULL)
    /\ pc' = "finish"
    /\ UNCHANGED <<hasGEOS, proc, loadOK, opaqueCount, GeosState, geosInit,
                   geosFinish, document, exitCode>>

\* finishGEOS(), compiled in with HAS_GEOS, and return 0.
Finish ==
    /\ pc = "finish"
    /\ geosFinish' = IF hasGEOS THEN geosFinish + 1 ELSE geosFinish
    /\ Return(proc, 0)
    /\ UNCHANGED <<hasGEOS, loadOK, opaqueCount, GeosState, geosInit, document>>

Step(files1, files2) ==
    \/ InitGEOS
    \/ LoadOK(1, files1) \/ LoadOK(2, files2)
    \/ LoadFailed(1, files1) \/ LoadFailed(2, files2)
    \/ LoadThrew(1, files1) \/ LoadThrew(2, files2)
    \/ LoadCrashed(1, files1) \/ LoadCrashed(2, files2)
    \/ \E p \in Procs : PrintDetailedInfo(p)
    \/ \E p \in Procs : GetValidGeometry(p)
    \/ ComputeIntersection
    \/ WriteIntersection
    \/ WriteEmpty
    \/ DestroyGeometries
    \/ ReportMissing
    \/ Finish

\* Runs on two rasters of the small grid.
Next == Step(PipeFiles, PipeFiles)
Spec == Init /\ [][Next]_vars

\* Runs whose first raster ranges over every mask of the larger grid.
ScanNext == Step(ScanFiles, SiblingFiles)
ScanSpec == Init /\ [][ScanNext]_vars

(***************************************************************************)
(* Properties.                                                             *)
(***************************************************************************)
Exited == pc = "exit"
Returned == Exited /\ exitCode \in {0, 1}
BothLoaded == loadOK[1] /\ loadOK[2]

\* getValidGeometry has returned for processor p.
Scanned(p) ==
    /\ hasGEOS /\ BothLoaded
    /\ pc \notin {"start", "load1", "info1", "load2", "info2", "geom1"}
    /\ p = 2 => pc # "geom2"

\* The pixels of the mask that equal 255.
ValidPixels(P) ==
    {v \in (0..(P.width - 1)) \X (0..(P.height - 1)) :
        P.maskData[v[2] * P.width + v[1] + 1] = 255}
AllPixels(P) == (0..(P.width - 1)) \X (0..(P.height - 1))

\* C1: when both rasters load, the run ends with a document written, and
\* with the empty FeatureCollection when a mask has no pixel equal to 255.
C1_DocumentAlwaysWritten ==
    (Exited /\ hasGEOS /\ BothLoaded) =>
        /\ document # NoDocument
        /\ (geometry[1] = NULL \/ geometry[2] = NULL) => document = EmptyCollection

\* C2: for every non-empty intersection, a point or a segment included, the
\* document holds one Feature whose ring is the rectangle of the minimum and
\* maximum X and Y over the coordinates of the intersection.
C2_RingIsEnvelope ==
    (pc \in {"destroy", "finish", "exit"} /\ HasOverlap(intersection)) =>
        document = [type |-> "FeatureCollection",
                    features |-> << Feature(RectRing(SetMin(Xs(intersection)),
                                                     SetMin(Ys(intersection)),
                                                     SetMax(Xs(intersection)),
                                                     SetMax(Ys(intersection)))) >>]

\* C3: the exit status is 0 exactly when both rasters loaded and the document
\* was written; no run exits with 0 without the document.
C3_ExitStatus ==
    (Exited /\ hasGEOS) =>
        (exitCode = 0 <=> (BothLoaded /\ document # NoDocument))

\* C4: every geometry handle acquired in a run has been released exactly once
\* when the run ends.
C4_HandlesReleasedOnce ==
    Exited => /\ \A h \in acquired : released[h] = 1
              /\ \A h \in Handles \ acquired : released[h] = 0

\* C5: the scan returns no geometry exactly when no pixel equals 255;
\* otherwise its box is ordered, holds every pixel equal to 255 and has such a
\* pixel on each of its four sides.
C5_ScanBox ==
    \A p \in Procs : Scanned(p) =>
        LET V == ValidPixels(proc[p])
            b == dataBounds[p]
        IN  /\ geometry[p] = NULL <=> V = {}
            /\ b.foundData <=> V # {}
            /\ V # {} =>
                 /\ b.dataMinX <= b.dataMaxX /\ b.dataMinY <= b.dataMaxY
                 /\ \A v \in V : /\ b.dataMinX <= v[1] /\ v[1] <= b.dataMaxX
                                 /\ b.dataMinY <= v[2] /\ v[2] <= b.dataMaxY
                 /\ \E v \in V : v[1] = b.dataMinX
                 /\ \E v \in V : v[1] = b.dataMaxX
                 /\ \E v \in V : v[2] = b.dataMinY
                 /\ \E v \in V : v[2] = b.dataMaxY

\* A scan of a mask whose box is wider and taller than one pixel and holds a
\* pixel that is not 255.
C5_Witness ==
    \E p \in Procs :
        /\ Scanned(p)
        /\ dataBounds[p].foundData
        /\ dataBounds[p].dataMinX < dataBounds[p].dataMaxX
        /\ dataBounds[p].dataMinY < dataBounds[p].dataMaxY
        /\ ValidPixels(proc[p]) # AllPixels(proc[p])
        /\ \E i \in DOMAIN proc[p].maskData : proc[p].maskData[i] \notin {0, 255}

\* C6 as stated: both corners of the box index a pixel equal to 255.
C6_CornersValid ==
    \A p \in Procs : (Scanned(p) /\ dataBounds[p].foundData) =>
        LET P == proc[p]
            b == dataBounds[p]
        IN  /\ P.maskData[b.dataMinY * P.width + b.dataMinX + 1] = 255
            /\ P.maskData[b.dataMaxY * P.width + b.dataMaxX + 1] = 255

\* C6 amended: both corners of the box index a pixel of the mask, and the row
\* and the column of each corner hold a pixel equal to 255.
C6_CornerRowsAndColumns ==
    \A p \in Procs : (Scanned(p) /\ ValidPixels(proc[p]) # {}) =>
        LET P == proc[p]
            b == dataBounds[p]
            V == ValidPixels(P)
        IN  /\ b.dataMinX \in 0..(P.width - 1) /\ b.dataMaxX \in 0..(P.width - 1)
            /\ b.dataMinY \in 0..(P.height - 1) /\ b.dataMaxY \in 0..(P.height - 1)
            /\ (b.dataMinY * P.width + b.dataMinX + 1) \in DOMAIN P.maskData
            /\ (b.dataMaxY * P.width + b.dataMaxX + 1) \in DOMAIN P.maskData
            /\ \E v \in V : v[2] = b.dataMinY
            /\ \E v \in V : v[1] = b.dataMinX
            /\ \E v \in V : v[2] = b.dataMaxY
            /\ \E v \in V : v[1] = b.dataMaxX

\* A scan whose box has a corner that is not 255.
C6_Witness ==
    \E p \in Procs :
        /\ Scanned(p) /\ dataBounds[p].foundData
        /\ proc[p].maskData[dataBounds[p].dataMinY * proc[p].width
                              + dataBounds[p].dataMinX + 1] # 255

\* C7: the extent polygon is the closed ring of 5 points (ulx,uly), (lrx,uly),
\* (lrx,lry), (ulx,lry), (ulx,uly), with (ulx,uly) the projection of
\* (minX,minY) and (lrx,lry) that of (maxX+1,maxY+1); the projection is the
\* affine one with a transform and (x, height - y) without; a fully valid
\* raster with transform [0,1,0,0,0,1] gives (0,0),(w,0),(w,h),(0,h),(0,0).
C7_ExtentRing ==
    \A p \in Procs : (Scanned(p) /\ geometry[p] # NULL) =>
        LET P == proc[p]
            b == dataBounds[p]
            t == P.geoTransform
            ring == geometry[p].coords
            ulx == IF P.hasGeoTransform
                   THEN t[1] + b.dataMinX * t[2] + b.dataMinY * t[3] ELSE b.dataMinX
            uly == IF P.hasGeoTransform
                   THEN t[4] + b.dataMinX * t[5] + b.dataMinY * t[6]
                   ELSE P.height - b.dataMinY
            lrx == IF P.hasGeoTransform
                   THEN t[1] + (b.dataMaxX + 1) * t[2] + (b.dataMaxY + 1) * t[3]
                   ELSE b.dataMaxX + 1
            lry == IF P.hasGeoTransform
                   THEN t[4] + (b.dataMaxX + 1) * t[5] + (b.dataMaxY + 1) * t[6]
                   ELSE P.height - (b.dataMaxY + 1)
        IN  /\ geometry[p].kind = "Polygon"
            /\ Len(ring) = 5
            /\ ring[1] = ring[5]
            /\ ring = << <<ulx, uly>>, <<lrx, uly>>, <<lrx, lry>>, <<ulx, lry>>, <<ulx, uly>> >>
            /\ (P.hasGeoTransform /\ t = <<0, 1, 0, 0, 0, 1>>
                  /\ ValidPixels(P) = AllPixels(P)) =>
                 ring = << <<0, 0>>, <<P.width, 0>>, <<P.width, P.height>>,
                           <<0, P.height>>, <<0, 0>> >>

\* An extent polygon under a transform with rotation terms, of a box that
\* does not start at pixel (0,0).
C7_Witness ==
    \E p \in Procs :
        /\ Scanned(p) /\ geometry[p] # NULL
        /\ proc[p].hasGeoTransform
        /\ proc[p].geoTransform[3] # 0 /\ proc[p].geoTransform[5] # 0
        /\ proc[p].geoTransform[3] # proc[p].geoTransform[5]
        /\ dataBounds[p].dataMinX > 0 /\ dataBounds[p].dataMinY > 0

\* C8: the intersection primitive is called only with both polygons present;
\* a NULL or empty intersection gives the empty FeatureCollection and a normal
\* end of the run; any other intersection gives a Feature; with a polygon
\* absent no Feature is written and the run ends normally.
C8_OverlapClassification ==
    /\ intersected => (geometry[1] # NULL /\ geometry[2] # NULL)
    /\ (Exited /\ intersected /\ (intersection = NULL \/ GEOSisEmpty(intersection))) =>
          (document = EmptyCollection /\ exitCode = 0)
    /\ (Exited /\ intersected /\ intersection # NULL /\ ~GEOSisEmpty(intersection)) =>
          (document.type = "FeatureCollection" /\ Len(document.features) = 1
             /\ exitCode = 0)
    /\ (Exited /\ Scanned(1) /\ Scanned(2) /\ (geometry[1] = NULL \/ geometry[2] = NULL)) =>
          (~intersected /\ document.features = <<>> /\ exitCode = 0)

\* A run on two disjoint rectangles that has ended.
C8_Witness ==
    /\ Exited /\ intersected
    /\ intersection = EmptyGeometry
    /\ document = EmptyCollection

\* C9: initGEOS precedes every geometry operation, and every run that called
\* it and returned from main has called finishGEOS exactly once.
C9_GeosBracket ==
    /\ (acquired # {} \/ intersected) => geosInit = 1
    /\ geosFinish <= geosInit
    /\ (Returned /\ geosInit = 1) => geosFinish = 1

\* C10: for a raster of positive width and height the argument of
\* maskData.resize is the product width * height, the product does not leave
\* the range of int, and every index y * width + x lies in the buffer.
C10_MaskBufferExact ==
    \A p \in Procs :
        (proc[p].sized /\ proc[p].width > 0 /\ proc[p].height > 0) =>
            /\ ~MulOverflows(proc[p].width, proc[p].height)
            /\ proc[p].sizeArg = proc[p].width * proc[p].height
            /\ Len(proc[p].maskData) = proc[p].width * proc[p].height
            /\ \A v \in AllPixels(proc[p]) :
                  (v[2] * proc[p].width + v[1] + 1) \in DOMAIN proc[p].maskData

====
